---- MODULE Spec2Model ----
(***************************************************************************)
(* Model of the RPi sink node's centralized DCA analysis scripts.          *)
(*                                                                         *)
(*   "dca" : src/source/centralized_dca_analysis.py                        *)
(*           (PAMP/danger/delta-based safe, cells retire; DCA or dDCA)     *)
(*   "etb" : src/source/centralized_dca_analysis-etb_exp.py                *)
(*           (danger capped at 1, std-dev based safe, majority vote)       *)
(*                                                                         *)
(*   "log" : src/scripts/serial_data_logger.py                             *)
(*           (read a line from the serial port, log it, sleep; until a     *)
(*           signal is caught)                                             *)
(*                                                                         *)
(* The two analysis scripts are module-level code that folds a stream of   *)
(* rows into a set of lists.  The variables are the scripts' module-level  *)
(* names; the two scripts use the same names, so one set of variables      *)
(* serves both and `script` says which one is running.  The logger has     *)
(* its own names (s, line) and leaves those of the analysis alone.         *)
(*                                                                         *)
(* Numbers.  The scripts compute in binary floating point.  The model      *)
(* computes exactly, in fixed point:                                       *)
(*   readings and indicators   hundredths  (the scripts round(.., 2))      *)
(*   raw row columns           thousandths (before round(.., 2))           *)
(*   "dca" signals             1/SigOne = 1/(100 * safe_w_sum) = 1/400     *)
(*   "dca" DCA accumulators    1/(SigOne * AccScale); AccScale is a common *)
(*                             multiple of the three weight sums, so the   *)
(*                             divisions by them are exact                 *)
(*   "dca" dDCA accumulators   1/SigOne                                    *)
(*   "etb" danger, safe, cells 1/Unit = 1/10000                            *)
(*   context                   1/Unit = 1/10000                            *)
(***************************************************************************)
EXTENDS Integers, Sequences, FiniteSets, TLC

VARIABLES
    script,     \* which script runs: "dca", "etb" or "log"
    USE_DDCA,   \* "dca": 1 = dDCA, 0 = DCA
    pc,         \* position in the script
    node,       \* "dca": index into nodes of the SNID being processed
    snid, sntime, time, tstmp,
    t_air, t_soil, h_air, h_soil,
    t_air_a, t_soil_a, h_air_a, h_soil_a,
    x_nt, x_vs, x_bat, x_art, x_rst, x_ic, x_adc, x_usart,
    antigen, pamp, danger, safe,
    context,
    dcs,
    dc,         \* "dca": the ready DC popped in step 4 of the last row, NoDC if none
    i,          \* "dca": iteration counter
    line_count, \* "etb": line counter
    pos,        \* "etb": number of rows the csv reader has handed out
    row,        \* the row the row loop is at
    csv,        \* rows written to the open CSV output file (after the header row)
    s,          \* "log": the bytes ser.readline() returned
    line,       \* "log": the decoded, stripped line
    log,        \* "log": the messages written to the log file
    sigint      \* "log": number of SIGINTs delivered (runs of signal_handler)

vars == << script, USE_DDCA, pc, node, snid, sntime, time, tstmp,
           t_air, t_soil, h_air, h_soil, t_air_a, t_soil_a, h_air_a, h_soil_a,
           x_nt, x_vs, x_bat, x_art, x_rst, x_ic, x_adc, x_usart,
           antigen, pamp, danger, safe, context, dcs, dc, i, line_count, pos, row,
           csv, s, line, log, sigint >>

\* the per-row lists of readings and indicators
readings   == << t_air, t_soil, h_air, h_soil >>
windows    == << t_air_a, t_soil_a, h_air_a, h_soil_a >>
indicators == << x_nt, x_vs, x_bat, x_art, x_rst, x_ic, x_adc, x_usart >>
general    == << snid, sntime, time, tstmp >>
signals    == << antigen, pamp, danger, safe >>
\* the names of serial_data_logger.py
logger     == << s, line, log, sigint >>

-----------------------------------------------------------------------------
(* Bounds of the model *)

\* rows handed to one run of the row loop
MaxRows == 6
\* entries of the list nodes that are modelled
NumNodes == 2
\* messages the logger writes to its log file
MaxLogLines == 3
\* SIGINTs delivered to the logger
MaxSignals == 2
\* rows of a longer input CSV file (more than STDDEV_N)
MaxLongRows == 13

-----------------------------------------------------------------------------
(* Program constants *)

DC_N == 5
\* the literal of "if len(dcs)>4" in centralized_dca_analysis.py
DC_LIVE == 4
STDDEV_N == 10
\* SAFE_SENS = 0.35, in hundredths
SAFE_SENS == 35

pamp1_w == 1
pamp2_w == 1
danger1_w == 1
danger2_w == 1
danger3_w == 1
danger4_w == 1
danger5_w == 1
danger6_w == 1
danger7_w == 1
safe1_w == 1
safe2_w == 1
safe3_w == 1
safe4_w == 1
pamp_w_csm == 1
danger_w_csm == 1
safe_w_csm == 2
pamp_w_semi == 0
danger_w_semi == 0
safe_w_semi == 3
pamp_w_mat == 2
danger_w_mat == 1
safe_w_mat == -3

\* timedelta(hours = 2), in seconds
TZ_SHIFT == 7200

Abs(v) == IF v < 0 THEN -v ELSE v

\* no DC was popped
NoDC == [antigen |-> "unbound"]
\* the name row before the row loop
NoRow == [bad |-> -1, success |-> -1]
\* the row of column titles that starts the input CSV file
HeaderRow == [bad |-> 0, success |-> -1]

-----------------------------------------------------------------------------
(* Rows *)

\* round(float(col), 2): thousandths to hundredths, ties to the even hundredth
Round2(m) ==
    LET q == m \div 10
        r == m % 10
    IN  IF r > 5 \/ (r = 5 /\ q % 2 = 1) THEN q + 1 ELSE q

\* 1.0 in the fixed point of context and of the "etb" signals
Unit == 100 * 100

\* the SNIDs of the list nodes that are modelled
nodes == [n \in 1..NumNodes |-> n]

\* A row of the table sensordata / of the input CSV file.  Numeric columns
\* hold thousandths; bad is the index of the column whose text is not a
\* number (or not a date), -1 when every column converts.
BaseRow ==
    [ snid |-> 1, sntime |-> 1, dbtime |-> 0,
      t_air |-> 20004, t_soil |-> 15000, h_air |-> 50000, h_soil |-> 30000,
      x_nt |-> 0, x_vs |-> 0, x_bat |-> 0, x_art |-> 0,
      x_rst |-> 0, x_ic |-> 0, x_adc |-> 0, x_usart |-> 0,
      success |-> 1, bad |-> -1 ]

\* the well-formed rows a "dca" query may return for one SNID
GoodRowsA(SNID) ==
    { [BaseRow EXCEPT !.snid = SNID],
      [BaseRow EXCEPT !.snid = SNID, !.sntime = 2, !.t_air = 24000],
      [BaseRow EXCEPT !.snid = SNID, !.sntime = 3, !.t_air = 20000,
                      !.x_nt = 1000, !.x_vs = 250],
      [BaseRow EXCEPT !.snid = SNID, !.sntime = 2, !.t_air = 25000,
                      !.t_soil = 16000, !.x_rst = 500] }

\* rows with one column that does not convert
BadColsA == {2, 3, 4, 8, 15}
BadRowsA(SNID) == { [BaseRow EXCEPT !.snid = SNID, !.bad = col] : col \in BadColsA }

RowsA(SNID) == GoodRowsA(SNID) \cup BadRowsA(SNID)

\* "dca" converts columns 2..15 in column order (column 1 goes through str())
ParsedA(rw, c) == rw.bad \notin 2..c
FailsA(rw) == rw.bad \in 2..15

-----------------------------------------------------------------------------
(* centralized_dca_analysis.py *)

safe_w_sum == Abs(safe1_w) + Abs(safe2_w) + Abs(safe3_w) + Abs(safe4_w)
csm_w_sum  == Abs(pamp_w_csm) + Abs(safe_w_csm) + Abs(danger_w_csm)
semi_w_sum == Abs(pamp_w_semi) + Abs(safe_w_semi) + Abs(danger_w_semi)
mat_w_sum  == Abs(pamp_w_mat) + Abs(safe_w_mat) + Abs(danger_w_mat)

\* 1.0 in the fixed point of the "dca" signals
SigOne == 100 * safe_w_sum
\* the DCA accumulators are kept multiplied by AccScale
AccScale == csm_w_sum * semi_w_sum * mat_w_sum

\* get_delta(v1,v2), in hundredths.  It is called after the current readings
\* were appended, so the names t_air and i it reads are t_air' and i here.
\* base is computed and never used (the scaling is commented out).
get_delta(v1, v2) ==
    IF v1 = v2
    THEN 0
    ELSE Abs(t_air'[i + 1] - t_air'[i])

\* variant of pamp2_t: the first row of a stream counts as a gap
pamp2_t_FirstIsGap ==
    IF i > 0
    THEN IF sntime'[i + 1] - sntime'[i] # 1 THEN 100 * pamp2_w ELSE 0
    ELSE 100 * pamp2_w

\* variant of pamp2_t: only a counter that runs ahead counts as a gap
pamp2_t_SkipOnly ==
    IF i > 0
    THEN IF sntime'[i + 1] - sntime'[i] > 1 THEN 100 * pamp2_w ELSE 0
    ELSE 0

\* PAMP of the current row, in 1/SigOne
pamp2_t ==
    IF i > 0
    THEN IF sntime'[i + 1] - sntime'[i] # 1 THEN 100 * pamp2_w ELSE 0
    ELSE 0

pamp_t(rw) == safe_w_sum * (Round2(rw.x_rst) * pamp1_w + pamp2_t)

\* danger of the current row, in 1/SigOne
danger_tA(rw) ==
    safe_w_sum * ( Round2(rw.x_nt) * danger1_w + Round2(rw.x_vs) * danger2_w
                 + Round2(rw.x_bat) * danger3_w + Round2(rw.x_art) * danger4_w
                 + Round2(rw.x_ic) * danger5_w + Round2(rw.x_adc) * danger6_w
                 + Round2(rw.x_usart) * danger7_w )

\* safe_t of the current row, in 1/SigOne: 1.0 - (safe1_t+..+safe4_t)/safe_w_sum
safe_tA ==
    IF i > 0
    THEN SigOne - ( get_delta(t_air'[i + 1], t_air'[i]) * safe1_w
                  + get_delta(t_soil'[i + 1], t_soil'[i]) * safe2_w
                  + get_delta(h_air'[i + 1], h_air'[i]) * safe3_w
                  + get_delta(h_soil'[i + 1], h_soil'[i]) * safe4_w )
    ELSE 0

\* what one row adds to a cell (and seeds a new cell with), from the signals
\* p = pamp_t, sf = safe_t, d = danger_t
SumsA(ddca, p, sf, d) ==
    IF ddca = 1
    THEN [ csm |-> sf + (d + 2 * p),
           k   |-> (d + 2 * p) - 2 * sf ]
    ELSE [ csm  |-> ((p * pamp_w_csm + sf * safe_w_csm + d * danger_w_csm) * AccScale)
                        \div csm_w_sum,
           semi |-> ((p * pamp_w_semi + sf * safe_w_semi + d * danger_w_semi) * AccScale)
                        \div semi_w_sum,
           mat  |-> ((p * pamp_w_mat + sf * safe_w_mat + d * danger_w_mat) * AccScale)
                        \div mat_w_sum ]

\* "for dc in dcs: dc[..] = dc[..] + .." : every cell of the list gets the sums
UpdateA(ddca, cells, add) ==
    [ j \in 1..Len(cells) |->
        IF ddca = 1
        THEN [ cells[j] EXCEPT !.csm = @ + add.csm, !.k = @ + add.k ]
        ELSE [ cells[j] EXCEPT !.csm = @ + add.csm, !.semi = @ + add.semi,
                               !.mat = @ + add.mat ] ]

\* variant of NewA: the new DC is created before the update loop, so the
\* row is added to it a second time
NewA_SeedTwice(ddca, ag, add) ==
    IF ddca = 1
    THEN [ antigen |-> ag, csm |-> 2 * add.csm, k |-> 2 * add.k ]
    ELSE [ antigen |-> ag, csm |-> 2 * add.csm, semi |-> 2 * add.semi,
           mat |-> 2 * add.mat ]

\* the new DC
NewA(ddca, ag, add) ==
    IF ddca = 1
    THEN [ antigen |-> ag, csm |-> add.csm, k |-> add.k ]
    ELSE [ antigen |-> ag, csm |-> add.csm, semi |-> add.semi, mat |-> add.mat ]

\* is there a DC at the end of its life
ReadyA(cells) == Len(cells) > DC_LIVE

\* variant of AssessA: the dDCA reads the cell's csm in place of its k
AssessA_ByCsm(ddca, cell) ==
    IF ddca = 1
    THEN IF cell.csm > 0 THEN Unit ELSE 0
    ELSE IF cell.mat > cell.semi THEN Unit ELSE 0

\* variant of AssessA: the DCA takes equal sums for mature (>= in place of >)
AssessA_EqualIsMature(ddca, cell) ==
    IF ddca = 1
    THEN IF cell.k > 0 THEN Unit ELSE 0
    ELSE IF cell.mat >= cell.semi THEN Unit ELSE 0

\* the context a popped DC gives
AssessA(ddca, cell) ==
    IF ddca = 1
    THEN IF cell.k > 0 THEN Unit ELSE 0
    ELSE IF cell.mat > cell.semi THEN Unit ELSE 0

\* "for SNID in nodes", up to the row loop: a node without entries is
\* skipped before anything is reset
A_SkipNode ==
    /\ script = "dca"
    /\ pc = "query"
    /\ node' = IF node = NumNodes THEN node ELSE node + 1
    /\ pc' = IF node = NumNodes THEN "done" ELSE "query"
    /\ UNCHANGED << logger, script, USE_DDCA, general, readings, windows, indicators,
                    signals, context, dcs, dc, i, line_count, pos, row, csv >>

\* a new CSV file is opened, the lists are emptied, i = 0
A_Prepare ==
    /\ script = "dca"
    /\ pc = "query"
    /\ pc' = "rows"
    /\ snid' = << >> /\ sntime' = << >> /\ time' = << >> /\ tstmp' = << >>
    /\ t_air' = << >> /\ t_soil' = << >> /\ h_air' = << >> /\ h_soil' = << >>
    /\ x_nt' = << >> /\ x_vs' = << >> /\ x_bat' = << >> /\ x_art' = << >>
    /\ x_rst' = << >> /\ x_ic' = << >> /\ x_adc' = << >> /\ x_usart' = << >>
    /\ antigen' = << >> /\ pamp' = << >> /\ danger' = << >> /\ safe' = << >>
    /\ context' = << >>
    /\ dcs' = << >>
    /\ i' = 0
    /\ csv' = << >>
    /\ UNCHANGED << logger, script, USE_DDCA, node, windows, dc, line_count, pos, row >>

\* variant of Put: "if value: list.append(value)", a zero is not appended
Put_SkipZero(list, reached, value) ==
    IF reached /\ value # 0 THEN Append(list, value) ELSE list

\* a list after "list.append(value)" when the statement is reached
Put(list, reached, value) == IF reached THEN Append(list, value) ELSE list

\* "/ safe_w_sum" with a zero sum (the safe signal of every row but the first)
ZeroDivSafeA == i > 0 /\ safe_w_sum = 0

\* "/ csm_w_sum", "/ semi_w_sum", "/ mat_w_sum" with a zero sum (DCA only)
ZeroDivSumsA(ddca) == ddca = 0 /\ 0 \in { csm_w_sum, semi_w_sum, mat_w_sum }

\* one pass of "for row in entries": steps 1 to 4 for one row.  A column that
\* does not convert raises at its float()/int()/strptime(), a zero divisor
\* raises at its division; nothing catches either, so the script ends there
\* with the appends made so far.
A_Row(rw) ==
    /\ script = "dca"
    /\ pc = "rows"
    /\ i < MaxRows
    \* step 1
    /\ snid'    = Append(snid, rw.snid)
    /\ sntime'  = Put(sntime, ParsedA(rw, 2), rw.sntime)
    /\ time'    = Put(time, ParsedA(rw, 3), rw.dbtime + TZ_SHIFT)
    /\ tstmp'   = Put(tstmp, ParsedA(rw, 3), rw.dbtime + TZ_SHIFT)
    /\ t_air'   = Put(t_air, ParsedA(rw, 4), Round2(rw.t_air))
    /\ t_soil'  = Put(t_soil, ParsedA(rw, 5), Round2(rw.t_soil))
    /\ h_air'   = Put(h_air, ParsedA(rw, 6), Round2(rw.h_air))
    /\ h_soil'  = Put(h_soil, ParsedA(rw, 7), Round2(rw.h_soil))
    /\ x_nt'    = Put(x_nt, ParsedA(rw, 8), Round2(rw.x_nt))
    /\ x_vs'    = Put(x_vs, ParsedA(rw, 9), Round2(rw.x_vs))
    /\ x_bat'   = Put(x_bat, ParsedA(rw, 10), Round2(rw.x_bat))
    /\ x_art'   = Put(x_art, ParsedA(rw, 11), Round2(rw.x_art))
    /\ x_rst'   = Put(x_rst, ParsedA(rw, 12), Round2(rw.x_rst))
    /\ x_ic'    = Put(x_ic, ParsedA(rw, 13), Round2(rw.x_ic))
    /\ x_adc'   = Put(x_adc, ParsedA(rw, 14), Round2(rw.x_adc))
    /\ x_usart' = Put(x_usart, ParsedA(rw, 15), Round2(rw.x_usart))
    /\ IF FailsA(rw)
       THEN /\ pc' = "crashed"
            /\ UNCHANGED << signals, context, dcs, dc, i >>
       ELSE LET \* step 2
                antigen_t == nodes[node]
                p   == pamp_t(rw)
                d   == danger_tA(rw)
            IN  /\ antigen' = Append(antigen, antigen_t)
                /\ pamp'    = Append(pamp, p)
                /\ danger'  = Append(danger, d)
                /\ IF ZeroDivSafeA
                   THEN /\ pc' = "zerodiv"
                        /\ UNCHANGED << safe, context, dcs, dc, i >>
                   ELSE LET safe_t == safe_tA
                        IN  /\ safe' = Append(safe, safe_t)
                            /\ IF ZeroDivSumsA(USE_DDCA)
                               THEN /\ pc' = "zerodiv"
                                    /\ UNCHANGED << context, dcs, dc, i >>
                               ELSE LET \* step 3
                                        add == SumsA(USE_DDCA, p, safe_t, d)
                                        upd == UpdateA(USE_DDCA, dcs, add)
                                        all == Append(upd, NewA(USE_DDCA, antigen_t, add))
                                    IN  \* step 4
                                        /\ IF ReadyA(all)
                                           THEN /\ dc' = Head(all)
                                                /\ dcs' = Tail(all)
                                                /\ context' = Append(context,
                                                                  AssessA(USE_DDCA, Head(all)))
                                           ELSE /\ dc' = NoDC
                                                /\ dcs' = all
                                                /\ context' = Append(context, 0)
                                        /\ i' = i + 1
                                        /\ pc' = "rows"
    /\ row' = rw
    /\ UNCHANGED << logger, script, USE_DDCA, node, windows, line_count, pos, csv >>

\* the rows written for one node: "for i in range(len(time))"
CsvRowsA ==
    [ j \in 1..Len(time) |->
        << snid[j], time[j], t_air[j], t_soil[j], h_air[j], h_soil[j],
           x_nt[j], x_vs[j], x_bat[j], x_art[j], x_rst[j], x_ic[j], x_adc[j],
           x_usart[j], antigen[j], pamp[j], danger[j], safe[j], context[j] >> ]

\* the entries are used up: result output, then the next node
A_Output ==
    /\ script = "dca"
    /\ pc = "rows"
    /\ i >= 1
    /\ csv' = csv \o CsvRowsA
    /\ i' = Len(time) - 1
    /\ node' = IF node = NumNodes THEN node ELSE node + 1
    /\ pc' = IF node = NumNodes THEN "done" ELSE "query"
    /\ dc' = NoDC
    /\ UNCHANGED << logger, script, USE_DDCA, general, readings, windows, indicators,
                    signals, context, dcs, line_count, pos, row >>

InitA ==
    /\ script = "dca"
    /\ USE_DDCA \in {0, 1}
    /\ pc = "query"
    /\ node = 1
    /\ snid = << >> /\ sntime = << >> /\ time = << >> /\ tstmp = << >>
    /\ t_air = << >> /\ t_soil = << >> /\ h_air = << >> /\ h_soil = << >>
    /\ t_air_a = << >> /\ t_soil_a = << >> /\ h_air_a = << >> /\ h_soil_a = << >>
    /\ x_nt = << >> /\ x_vs = << >> /\ x_bat = << >> /\ x_art = << >>
    /\ x_rst = << >> /\ x_ic = << >> /\ x_adc = << >> /\ x_usart = << >>
    /\ antigen = << >> /\ pamp = << >> /\ danger = << >> /\ safe = << >>
    /\ context = << >>
    /\ dcs = << >>
    /\ dc = NoDC
    /\ i = 0
    /\ line_count = 0
    /\ pos = 0
    /\ row = NoRow
    /\ csv = << >>
    /\ s = << >> /\ line = << >> /\ log = << >> /\ sigint = 0

NextA ==
    \/ A_SkipNode
    \/ A_Prepare
    \/ \E rw \in RowsA(nodes[node]) : A_Row(rw)
    \/ A_Output

SpecA == InitA /\ [][NextA]_vars

\* Streams of well-formed rows for one SNID whose n-th row (n = 0, 1, ..) is
\* one of four: the message counter follows on (n + 1) or skips (the next
\* row then repeats it after an even n and falls below it after an odd n);
\* the four readings are steady or all four move by 1.0 from row to row.
StreamRowsA(SNID, n) ==
    LET on   == [BaseRow EXCEPT !.snid = SNID, !.sntime = n + 1]
        move == [on EXCEPT !.t_air  = 20000 + 1000 * (n % 2),
                           !.t_soil = 15000 + 1000 * (n % 2),
                           !.h_air  = 50000 + 1000 * (n % 2),
                           !.h_soil = 30000 + 1000 * (n % 2)]
    IN  { on,
          move,
          [move EXCEPT !.x_nt = 1000],
          [on EXCEPT !.sntime = n + 2 + (n % 2), !.x_rst = 500] }

NextStreamA ==
    \/ A_SkipNode
    \/ A_Prepare
    \/ \E rw \in StreamRowsA(nodes[node], i) : A_Row(rw)
    \/ A_Output

SpecStreamA == InitA /\ [][NextStreamA]_vars

-----------------------------------------------------------------------------
(* centralized_dca_analysis-etb_exp.py *)

\* the rows of the input CSV file with every column read well-formed and the
\* transmission a success; the records of several nodes may share one file
GoodRowsB ==
    { BaseRow,
      [BaseRow EXCEPT !.sntime = 2, !.t_air = 22000, !.x_nt = 600, !.x_vs = 700],
      [BaseRow EXCEPT !.snid = 2, !.t_air = 20000, !.h_air = 52000, !.x_rst = 500],
      [BaseRow EXCEPT !.sntime = 3, !.x_nt = 1000] }

\* a row of a failed transmission
LostRowsB ==
    { [BaseRow EXCEPT !.success = 0, !.t_air = 30000, !.x_nt = 1000] }

\* rows with one column that does not convert; column 4 (T_soil) is not read
BadColsB == {1, 3, 4, 6, 14, 15, 16}
BadRowsB == { [BaseRow EXCEPT !.bad = col] : col \in BadColsB }

RowsB == GoodRowsB \cup LostRowsB \cup BadRowsB

\* the columns "etb" converts, in the order it converts them (column 0 goes
\* through str(), column 4 is commented out)
OrderB == << 15, 16, 17, 18, 19, 1, 2, 3, 5, 6, 7, 8, 9, 10, 11, 12, 13, 14 >>
RankB(c) == CHOOSE r \in DOMAIN OrderB : OrderB[r] = c
FailsB(rw) == \E r \in DOMAIN OrderB : OrderB[r] = rw.bad
\* column c was converted
ParsedB(rw, c) == IF FailsB(rw) THEN RankB(rw.bad) > RankB(c) ELSE TRUE

RECURSIVE SumSeq(_)
SumSeq(q) == IF q = << >> THEN 0 ELSE Head(q) + SumSeq(Tail(q))

\* floor of the square root
RECURSIVE SqrtFrom(_, _)
SqrtFrom(v, r) == IF (r + 1) * (r + 1) > v THEN r ELSE SqrtFrom(v, r + 1)
RECURSIVE ISqrt(_)
ISqrt(v) ==
    IF v < 4
    THEN SqrtFrom(v, 0)
    ELSE LET r == 2 * ISqrt(v \div 4)
         IN  IF (r + 1) * (r + 1) > v THEN r ELSE r + 1

\* variant of Push: pop() in place of pop(0)
Push_DropNewest(win, value) ==
    LET w == Append(win, value)
    IN  IF Len(w) > STDDEV_N THEN SubSeq(w, 1, Len(w) - 1) ELSE w

\* variant of Push: "if value: win.append(value)", a zero is not stored
Push_NonZeroOnly(win, value) ==
    LET w == IF value # 0 THEN Append(win, value) ELSE win
    IN  IF Len(w) > STDDEV_N THEN Tail(w) ELSE w

\* "last N sensor values": append, then drop the oldest beyond STDDEV_N
Push(win, value) ==
    LET w == Append(win, value)
    IN  IF Len(w) > STDDEV_N THEN Tail(w) ELSE w

\* safeN_mu, safeN_dev over one window, the result in hundredths (floor):
\* mu = sum/n and dev = sqrt(sum((val-mu)**2)/n), computed exactly as
\* sqrt(sum((n*val - sum)**2) / n**3)
StdDev(win) ==
    LET n   == Len(win)
        sum == SumSeq(win)
        sq  == SumSeq([ j \in 1..n |-> (n * win[j] - sum) * (n * win[j] - sum) ])
    IN  ISqrt(sq \div (n * n * n))

Max2(a, b) == IF a >= b THEN a ELSE b
Min2(a, b) == IF a <= b THEN a ELSE b

\* exp(x) for 0 <= x <= 1, x and the result in 1/Unit: the power series up to x**8/8!
RECURSIVE ExpTerms(_, _, _)
ExpTerms(x, k, term) ==
    IF k > 8 THEN 0
    ELSE term + ExpTerms(x, k + 1, (term * x) \div (Unit * (k + 1)))

\* math.exp(-x), x >= 0, x and the result in 1/Unit
RECURSIVE NegExp(_)
NegExp(x) ==
    IF x > Unit
    THEN LET h == NegExp(x \div 2) IN (h * h) \div Unit
    ELSE (Unit * Unit) \div ExpTerms(x, 0, Unit)

\* variant of danger_tB: the sum without min(1, ..)
danger_tB_Uncapped(rw) ==
    100 * ( Round2(rw.x_nt) + Round2(rw.x_vs) + Round2(rw.x_bat)
          + Round2(rw.x_art) + Round2(rw.x_rst) + Round2(rw.x_ic)
          + Round2(rw.x_adc) + Round2(rw.x_usart) )

\* danger of the current row, in 1/Unit: min(1, danger1_t + .. + danger8_t)
danger_tB(rw) ==
    100 * Min2(100, Round2(rw.x_nt) + Round2(rw.x_vs) + Round2(rw.x_bat)
                    + Round2(rw.x_art) + Round2(rw.x_rst) + Round2(rw.x_ic)
                    + Round2(rw.x_adc) + Round2(rw.x_usart))

\* safe of the current row, in 1/Unit, from the four windows after the push
safe_tB(w1, w2, w3, w4) ==
    NegExp(Max2(Max2(StdDev(w1), StdDev(w2)), Max2(StdDev(w3), StdDev(w4))) * SAFE_SENS)

\* step 3: update the previous DCs, create the new DC, delete the oldest DC
\* if the population is full
UpdateB(cells, context_t) ==
    [ j \in 1..Len(cells) |-> [ cells[j] EXCEPT !.context = @ + context_t ] ]

NewB(ag, context_t) == [ antigen |-> ag, context |-> context_t ]

\* variant of FullB: len(dcs)>=DC_N in place of len(dcs)>DC_N
FullB_OneEarly(cells) == Len(cells) >= DC_N

FullB(cells) == Len(cells) > DC_N

\* variant of StepB: dcs.pop() in place of dcs.pop(0)
StepB_PopNewest(cells, ag, context_t) ==
    LET all == Append(UpdateB(cells, context_t), NewB(ag, context_t))
    IN  IF FullB(all) THEN SubSeq(all, 1, Len(all) - 1) ELSE all

StepB(cells, ag, context_t) ==
    LET all == Append(UpdateB(cells, context_t), NewB(ag, context_t))
    IN  IF FullB(all) THEN Tail(all) ELSE all

\* variant of CountB: dc["context"]>0 in place of >=0
CountB_Strict(cells) == Cardinality({ j \in 1..Len(cells) : cells[j].context > 0 })

\* step 4: the share of the DCs whose context is not negative, in 1/Unit
CountB(cells) == Cardinality({ j \in 1..Len(cells) : cells[j].context >= 0 })

ContextB(cells) == (CountB(cells) * Unit) \div Len(cells)

\* variant of LostB: the success flag is not looked at
LostB_Never(rw) == ParsedB(rw, 15) /\ FALSE

\* "success = int(row[15]); if not success: continue"
LostB(rw) == ParsedB(rw, 15) /\ rw.success = 0

\* the first row of the file (line_count = 0) is the column titles
B_Header ==
    /\ script = "etb"
    /\ pc = "rows"
    /\ line_count = 0
    /\ pos' = pos + 1
    /\ line_count' = line_count + 1
    /\ row' = HeaderRow
    /\ UNCHANGED << logger, script, USE_DDCA, pc, node, general, readings, windows,
                    indicators, signals, context, dcs, dc, i, csv >>

\* a row whose success column is 0: "continue", before line_count += 1
B_Lost(rw) ==
    /\ script = "etb"
    /\ pc = "rows"
    /\ line_count > 0
    /\ LostB(rw)
    /\ pos' = pos + 1
    /\ row' = rw
    /\ UNCHANGED << logger, script, USE_DDCA, pc, node, general, readings, windows,
                    indicators, signals, context, dcs, dc, i, line_count, csv >>

\* the divisors of the four means and variances: "/ len(t_air_a)" and so on
DivisorsB(w1, w2, w3, w4) == { Len(w1), Len(w2), Len(w3), Len(w4) }

\* steps 1 to 4 for one row of a successful transmission.  A column that
\* does not convert raises, a zero divisor raises at its division; nothing
\* catches either, so the script ends there with the appends made so far.
B_Row(rw) ==
    /\ script = "etb"
    /\ pc = "rows"
    /\ line_count > 0
    /\ ~LostB(rw)
    /\ pos' = pos + 1
    /\ row' = rw
    \* step 1
    /\ snid'     = Put(snid, ParsedB(rw, 19), rw.snid)
    /\ sntime'   = Put(sntime, ParsedB(rw, 1), rw.sntime)
    /\ time'     = Put(time, ParsedB(rw, 2), rw.dbtime)
    /\ tstmp'    = Put(tstmp, ParsedB(rw, 2), rw.dbtime)
    /\ t_air'    = Put(t_air, ParsedB(rw, 3), Round2(rw.t_air))
    /\ t_soil'   = Put(t_soil, ParsedB(rw, 3), 0)
    /\ h_air'    = Put(h_air, ParsedB(rw, 5), Round2(rw.h_air))
    /\ h_soil'   = Put(h_soil, ParsedB(rw, 6), Round2(rw.h_soil))
    /\ t_air_a'  = IF ParsedB(rw, 6) THEN Push(t_air_a, Round2(rw.t_air)) ELSE t_air_a
    /\ t_soil_a' = IF ParsedB(rw, 6) THEN Push(t_soil_a, 0) ELSE t_soil_a
    /\ h_air_a'  = IF ParsedB(rw, 6) THEN Push(h_air_a, Round2(rw.h_air)) ELSE h_air_a
    /\ h_soil_a' = IF ParsedB(rw, 6) THEN Push(h_soil_a, Round2(rw.h_soil)) ELSE h_soil_a
    /\ x_nt'     = Put(x_nt, ParsedB(rw, 7), Round2(rw.x_nt))
    /\ x_vs'     = Put(x_vs, ParsedB(rw, 8), Round2(rw.x_vs))
    /\ x_bat'    = Put(x_bat, ParsedB(rw, 9), Round2(rw.x_bat))
    /\ x_art'    = Put(x_art, ParsedB(rw, 10), Round2(rw.x_art))
    /\ x_rst'    = Put(x_rst, ParsedB(rw, 11), Round2(rw.x_rst))
    /\ x_ic'     = Put(x_ic, ParsedB(rw, 12), Round2(rw.x_ic))
    /\ x_adc'    = Put(x_adc, ParsedB(rw, 13), Round2(rw.x_adc))
    /\ x_usart'  = Put(x_usart, ParsedB(rw, 14), Round2(rw.x_usart))
    /\ IF FailsB(rw)
       THEN /\ pc' = "crashed"
            /\ UNCHANGED << antigen, danger, safe, context, dcs, line_count >>
       ELSE LET \* step 2
                antigen_t == rw.snid
                d == danger_tB(rw)
            IN  /\ antigen' = Append(antigen, antigen_t)
                /\ danger'  = Append(danger, d)
                /\ IF 0 \in DivisorsB(t_air_a', t_soil_a', h_air_a', h_soil_a')
                   THEN /\ pc' = "zerodiv"
                        /\ UNCHANGED << safe, context, dcs, line_count >>
                   ELSE LET safe_t == safe_tB(t_air_a', t_soil_a', h_air_a', h_soil_a')
                            \* step 3
                            cells == StepB(dcs, antigen_t, d - safe_t)
                        IN  /\ safe' = Append(safe, safe_t)
                            /\ dcs' = cells
                            \* step 4
                            /\ IF Len(cells) = 0
                               THEN /\ pc' = "zerodiv"
                                    /\ UNCHANGED << context, line_count >>
                               ELSE /\ context' = Append(context, ContextB(cells))
                                    /\ line_count' = line_count + 1
                                    /\ pc' = "rows"
    /\ UNCHANGED << logger, script, USE_DDCA, node, pamp, dc, i, csv >>

\* the rows written: "for i in range(len(time))"
CsvRowsB ==
    [ j \in 1..Len(time) |->
        << snid[j], time[j], t_air[j], t_soil[j], h_air[j], h_soil[j],
           x_nt[j], x_vs[j], x_bat[j], x_art[j], x_rst[j], x_ic[j], x_adc[j],
           x_usart[j], antigen[j], danger[j], safe[j], context[j] >> ]

\* the reader is used up: result output
B_Output ==
    /\ script = "etb"
    /\ pc = "rows"
    /\ csv' = CsvRowsB
    /\ i' = IF Len(time) > 0 THEN Len(time) - 1 ELSE i
    /\ pc' = "done"
    /\ UNCHANGED << logger, script, USE_DDCA, node, general, readings, windows, indicators,
                    signals, context, dcs, dc, line_count, pos, row >>

InitB ==
    /\ script = "etb"
    /\ USE_DDCA = 0
    /\ pc = "rows"
    /\ node = 1
    /\ snid = << >> /\ sntime = << >> /\ time = << >> /\ tstmp = << >>
    /\ t_air = << >> /\ t_soil = << >> /\ h_air = << >> /\ h_soil = << >>
    /\ t_air_a = << >> /\ t_soil_a = << >> /\ h_air_a = << >> /\ h_soil_a = << >>
    /\ x_nt = << >> /\ x_vs = << >> /\ x_bat = << >> /\ x_art = << >>
    /\ x_rst = << >> /\ x_ic = << >> /\ x_adc = << >> /\ x_usart = << >>
    /\ antigen = << >> /\ pamp = << >> /\ danger = << >> /\ safe = << >>
    /\ context = << >>
    /\ dcs = << >>
    /\ dc = NoDC
    /\ i = 0
    /\ line_count = 0
    /\ pos = 0
    /\ row = NoRow
    /\ csv = << >>
    /\ s = << >> /\ line = << >> /\ log = << >> /\ sigint = 0

\* a file of the title row and up to MaxRows rows
NextB ==
    \/ B_Header
    \/ \E rw \in RowsB : pos <= MaxRows /\ B_Lost(rw)
    \/ \E rw \in RowsB : pos <= MaxRows /\ B_Row(rw)
    \/ B_Output

SpecB == InitB /\ [][NextB]_vars

\* Longer files, of the title row and up to MaxLongRows rows: the row at
\* position n is a failed transmission or a record whose readings move
\* with n (T_air up, H_air up, H_soil down).
LongRowsB(n) ==
    { [BaseRow EXCEPT !.success = 0],
      [BaseRow EXCEPT !.sntime = n, !.t_air = 20000 + 1000 * n,
                      !.h_air = 50000 + 100 * n, !.h_soil = 30000 - 100 * n] }

NextLongB ==
    \/ B_Header
    \/ \E rw \in LongRowsB(pos) : pos <= MaxLongRows /\ B_Lost(rw)
    \/ \E rw \in LongRowsB(pos) : pos <= MaxLongRows /\ B_Row(rw)
    \/ B_Output

SpecLongB == InitB /\ [][NextLongB]_vars

-----------------------------------------------------------------------------
(* Either script *)

Init == InitA \/ InitB

Next == NextA \/ NextB

Spec == Init /\ [][Next]_vars

-----------------------------------------------------------------------------
(* serial_data_logger.py *)

\* pc of the logger: the statement the process is in
\*   "readline"  s = ser.readline()                      (in the try block)
\*   "decode"    line = s.decode('utf-8').replace(..); line = line.strip()
\*                                                       (in the try block)
\*   "info"      logging.info(line)                      (in the try block)
\*   "flush"     ser.flush()                             (in the except block)
\*   "sleep"     time.sleep(1), and back to "while True"
\*   "exited"    the process has ended
InTry == { "readline", "decode", "info" }

\* the names of the analysis scripts, which the logger does not have
analysis == << USE_DDCA, node, general, readings, windows, indicators, signals,
               context, dcs, dc, i, line_count, pos, row, csv >>

\* bytes: "A" is 65, " " is 32, "\r" is 13, "\n" is 10; 255 is in no UTF-8 text
\* what ser.readline() may return: a line up to and including its "\n"
SerialLines ==
    { << 65, 13, 10 >>, << 32, 65, 32, 10 >>, << 65, 13, 10, 65, 10 >>,
      << 255, 65, 10 >> }

\* s.decode('utf-8') raises UnicodeDecodeError unless every byte sequence is
\* valid UTF-8; of the bytes modelled, those below 128 are
Decodes(b) == \A k \in 1..Len(b) : b[k] < 128

\* .replace('\r\n','')
RECURSIVE Replace(_)
Replace(t) ==
    IF Len(t) < 2 THEN t
    ELSE IF t[1] = 13 /\ t[2] = 10
         THEN Replace(SubSeq(t, 3, Len(t)))
         ELSE << t[1] >> \o Replace(Tail(t))

\* the whitespace str.strip() removes, among the characters modelled
Whitespace == { 9, 10, 11, 12, 13, 32 }

\* .strip()
RECURSIVE Strip(_)
Strip(t) ==
    IF t = << >> THEN t
    ELSE IF Head(t) \in Whitespace THEN Strip(Tail(t))
    ELSE IF t[Len(t)] \in Whitespace THEN Strip(SubSeq(t, 1, Len(t) - 1))
    ELSE t

\* s = ser.readline() returns a line
L_ReadLine(b) ==
    /\ script = "log"
    /\ pc = "readline"
    /\ s' = b
    /\ pc' = "decode"
    /\ UNCHANGED << script, analysis, line, log, sigint >>

\* ser.readline() raises (serial.SerialException): "except:" takes it
L_ReadError ==
    /\ script = "log"
    /\ pc = "readline"
    /\ pc' = "flush"
    /\ UNCHANGED << script, analysis, logger >>

\* line = s.decode('utf-8').replace('\r\n',''); line = line.strip();
\* UnicodeDecodeError goes to "except:"
L_Decode ==
    /\ script = "log"
    /\ pc = "decode"
    /\ IF Decodes(s)
       THEN /\ line' = Strip(Replace(s))
            /\ pc' = "info"
       ELSE /\ pc' = "flush"
            /\ UNCHANGED line
    /\ UNCHANGED << script, analysis, s, log, sigint >>

\* logging.info(line)
L_Info ==
    /\ script = "log"
    /\ pc = "info"
    /\ log' = Append(log, line)
    /\ pc' = "sleep"
    /\ UNCHANGED << script, analysis, s, line, sigint >>

\* except: ser.flush()
L_Flush ==
    /\ script = "log"
    /\ pc = "flush"
    /\ pc' = "sleep"
    /\ UNCHANGED << script, analysis, logger >>

\* time.sleep(1), then the next pass of "while True"
L_Sleep ==
    /\ script = "log"
    /\ pc = "sleep"
    /\ pc' = "readline"
    /\ UNCHANGED << script, analysis, logger >>

\* does the bare "except:" take a SystemExit raised at the statement at
Caught(at) == at \in InTry

\* SIGINT is delivered: signal_handler runs in the main thread at the
\* statement the process is in and sys.exit(0) raises SystemExit there.
\* In the try block the bare "except:" takes it (a message under way in
\* logging.info is written or not); anywhere else the process ends.
L_SigInt ==
    /\ script = "log"
    /\ pc # "exited"
    /\ sigint' = sigint + 1
    /\ IF Caught(pc)
       THEN /\ pc' = "flush"
            /\ IF pc = "info"
               THEN log' \in { log, Append(log, line) }
               ELSE log' = log
       ELSE /\ pc' = "exited"
            /\ log' = log
    /\ UNCHANGED << script, analysis, s, line >>

\* after "ser = serial.Serial(PORT, BAUD, timeout=None)"
InitLog ==
    /\ script = "log"
    /\ USE_DDCA = 0
    /\ pc = "readline"
    /\ node = 1
    /\ snid = << >> /\ sntime = << >> /\ time = << >> /\ tstmp = << >>
    /\ t_air = << >> /\ t_soil = << >> /\ h_air = << >> /\ h_soil = << >>
    /\ t_air_a = << >> /\ t_soil_a = << >> /\ h_air_a = << >> /\ h_soil_a = << >>
    /\ x_nt = << >> /\ x_vs = << >> /\ x_bat = << >> /\ x_art = << >>
    /\ x_rst = << >> /\ x_ic = << >> /\ x_adc = << >> /\ x_usart = << >>
    /\ antigen = << >> /\ pamp = << >> /\ danger = << >> /\ safe = << >>
    /\ context = << >>
    /\ dcs = << >>
    /\ dc = NoDC
    /\ i = 0
    /\ line_count = 0
    /\ pos = 0
    /\ row = NoRow
    /\ csv = << >>
    /\ s = << >> /\ line = << >> /\ log = << >> /\ sigint = 0

\* up to MaxLogLines messages and MaxSignals SIGINTs
NextLog ==
    \/ \E b \in SerialLines : Len(log) < MaxLogLines /\ L_ReadLine(b)
    \/ L_ReadError
    \/ L_Decode
    \/ L_Info
    \/ L_Flush
    \/ L_Sleep
    \/ sigint < MaxSignals /\ L_SigInt

SpecLog == InitLog /\ [][NextLog]_vars

-----------------------------------------------------------------------------
(* Properties *)

\* number of rows of the current stream that went through steps 1 to 4
Ticks == Len(context)

\* the step handles one row completely
Tick == Len(context') = Len(context) + 1

\* C1: in both scripts, once more than DC_N records of a stream have been
\* processed, exactly DC_N cells are left in dcs at the end of every tick.
C1_PopulationExactlyDCN ==
    Ticks > DC_N => Len(dcs) = DC_N

\* C2: in centralized_dca_analysis.py each of the first DC_N records of a
\* stream gets context 0.0, whatever its signals are; record DC_N+1 is the
\* first that can get 1.0.
C2_FirstDCNContextsZero ==
    script = "dca" =>
        \A j \in 1..Len(context) : j <= DC_N => context[j] = 0

\* C3 as claimed: in centralized_dca_analysis.py the first record of a stream
\* has safe = 0.0 and pamp = 0.0, whatever its fault indicators are.
C3_FirstRecordSafeAndPampZero ==
    script = "dca" /\ Len(pamp) >= 1 /\ Len(safe) >= 1 =>
        safe[1] = 0 /\ pamp[1] = 0

\* C3 as amended: in centralized_dca_analysis.py the first record of a stream
\* has safe = 0.0 and no gap component in its PAMP, so its pamp is
\* x_rst * pamp1_w: 0.0 exactly when its x_rst is 0.
C3_FirstRecordSafeZeroPampIsReset ==
    script = "dca" /\ Len(pamp) >= 1 /\ Len(safe) >= 1 =>
        /\ safe[1] = 0
        /\ pamp[1] = safe_w_sum * x_rst[1] * pamp1_w
        /\ (pamp[1] = 0 <=> x_rst[1] = 0)

\* a stream whose first record has x_rst > 0 went through the signal update
C3_FirstRecordWithReset ==
    script = "dca" /\ Len(pamp) >= 1 /\ x_rst[1] > 0

\* C4: in centralized_dca_analysis.py the safe signal of every record lies
\* in [0,1].
C4_SafeInUnitInterval ==
    script = "dca" =>
        \A j \in 1..Len(safe) : 0 <= safe[j] /\ safe[j] <= SigOne

\* C5: get_delta(v1, v2) is 0 when v1 = v2 and when v1 = 0, and otherwise
\* |v1 - v2| / |v1|: the delta of each of the four quantities at a tick is
\* fixed by that quantity's own current and previous reading.  (get_delta is
\* in hundredths, so delta/100 = |v1 - v2|/|v1|.)
C5_DeltaOfOwnReadings ==
    [][ (script = "dca" /\ Tick /\ i > 0) =>
            \A q \in { t_air', t_soil', h_air', h_soil' } :
                LET v1 == q[i + 1]
                    v2 == q[i]
                IN  IF v1 = v2 \/ v1 = 0
                    THEN get_delta(v1, v2) = 0
                    ELSE get_delta(v1, v2) * Abs(v1) = 100 * Abs(v1 - v2) ]_vars

\* the step hands the row loop a row, row', one of whose columns does not convert
MalformedRowStep ==
    /\ pc = "rows"
    /\ \/ script = "dca" /\ (Tick \/ pc' = "crashed") /\ FailsA(row')
       \/ script = "etb" /\ line_count > 0 /\ pos' = pos + 1 /\ ~LostB(row')
                         /\ FailsB(row')

\* C6: in both scripts a record that fails field parsing is skipped: it
\* changes none of the lists, windows or cells, gives no output row, and the
\* row loop goes on.
C6_MalformedRowSkipped ==
    [][ MalformedRowStep =>
            /\ pc' = "rows"
            /\ UNCHANGED << general, readings, windows, indicators, signals,
                            context, dcs, csv >> ]_vars

\* the step hands the "etb" row loop a row whose success flag is 0
LostRowStep ==
    /\ script = "etb"
    /\ pc = "rows"
    /\ line_count > 0
    /\ pos' = pos + 1
    /\ row'.bad # 15
    /\ row'.success = 0

\* C7: in centralized_dca_analysis-etb_exp.py a row whose success flag is 0
\* leaves the windows, the cells and every list as they were and gives no
\* output row (so the rows that follow are handled as if it had not been there).
C7_LostRowChangesNothing ==
    [][ LostRowStep =>
            /\ pc' = "rows"
            /\ UNCHANGED << general, readings, windows, indicators, signals,
                            context, dcs, line_count, csv >> ]_vars

\* a failed transmission was read after a record had been accepted
C7_LostRowAfterRecord ==
    script = "etb" /\ row.success = 0 /\ Ticks >= 1 /\ pc = "rows"

\* what the row of tick t added to the cells, from the signal lists
ContribAt(t) ==
    IF script = "dca"
    THEN SumsA(USE_DDCA, pamp[t], safe[t], danger[t])
    ELSE [ context |-> danger[t] - safe[t] ]

RECURSIVE FieldSum(_, _, _)
FieldSum(f, from, to) ==
    IF from > to THEN 0 ELSE ContribAt(from)[f] + FieldSum(f, from + 1, to)

Sums(cell) == DOMAIN cell \ {"antigen"}

\* C8: at the end of each tick the accumulators of the j-th live cell are the
\* sums of the per-tick contributions over the ticks from its creation (one
\* cell per tick, so tick Ticks - Len(dcs) + j) through the current tick,
\* each tick once; the cell that retires was created one tick before the
\* oldest cell left and holds the sums from that tick through the current one.
C8_CellSumsOverLifetime ==
    /\ \A j \in 1..Len(dcs) :
          \A f \in Sums(dcs[j]) :
              dcs[j][f] = FieldSum(f, Ticks - Len(dcs) + j, Ticks)
    /\ dc # NoDC =>
          /\ Ticks - Len(dcs) >= 1
          /\ \A f \in Sums(dc) : dc[f] = FieldSum(f, Ticks - Len(dcs), Ticks)

\* a second cell has retired while the cells left hold different sums
C8_SecondRetirement ==
    /\ script = "dca"
    /\ dc # NoDC
    /\ Ticks = DC_N + 1
    /\ dcs[1].csm # dcs[2].csm

\* C9: in both scripts every tick leaves at most DC_N cells, creates exactly
\* one cell (the last of the list, seeded with the tick's contribution) and
\* removes at most one cell, the head: the cells before the last are the
\* old cells in their order, each grown by the tick's contribution, with
\* at most the first old cell missing.
C9_OneInAtMostOneOut ==
    [][ Tick =>
            LET n   == Len(dcs)
                m   == Len(dcs')
                off == n + 1 - m
            IN  /\ m >= 1 /\ m <= DC_N
                /\ off \in {0, 1}
                /\ dcs'[m].antigen = antigen'[Len(antigen')]
                /\ \A j \in 1..(m - 1) :
                      /\ dcs'[j].antigen = dcs[j + off].antigen
                      /\ \A f \in Sums(dcs'[j]) :
                            dcs'[j][f] - dcs[j + off][f] = dcs'[m][f] ]_vars

\* a tick has removed a cell while the old cells held different sums
C9_HeadRemoved ==
    /\ script = "etb"
    /\ Ticks = DC_N + 1
    /\ Len(dcs) = DC_N
    /\ dcs[1].context # dcs[2].context

\* C10: in centralized_dca_analysis-etb_exp.py the context of a record is
\* (number of cells with context sum >= 0) / (number of cells), over the
\* cells as they stand after the record's update; it is in [0,1]; a sum of
\* exactly 0 counts, so a stream with danger - safe = 0 at every tick has
\* context 1.0 at every tick.  (context is the quotient in 1/Unit, floor.)
C10_ContextIsShareOfNonNegative ==
    script = "etb" /\ Ticks >= 1 =>
        LET n   == Len(dcs)
            cnt == Cardinality({ j \in 1..n : ~(dcs[j].context < 0) })
            c   == context[Ticks]
        IN  /\ n >= 1
            /\ c * n <= cnt * Unit
            /\ cnt * Unit < c * n + n
            /\ 0 <= c /\ c <= Unit
            /\ (\A t \in 1..Ticks : danger[t] - safe[t] = 0)
                  => \A t \in 1..Ticks : context[t] = Unit

\* more than DC_N records, each with danger - safe = 0
C10_AllSumsZero ==
    /\ script = "etb"
    /\ Ticks > DC_N
    /\ \A t \in 1..Ticks : danger[t] - safe[t] = 0

\* C11 as claimed: in centralized_dca_analysis-etb_exp.py no cell is ever
\* evicted: every cell created stays in the population the decision step
\* reads, so after n records the population holds n cells.
C11_NoCellEverEvicted ==
    script = "etb" => Len(dcs) = Ticks

\* C11 as amended: in centralized_dca_analysis-etb_exp.py a cell stays in the
\* population for DC_N ticks (the tick that creates it and the DC_N - 1 that
\* follow) and is deleted, as the oldest, in the step 3 of the next tick,
\* before the decision step reads the population: at the end of every tick
\* the population is the cells of the last min(Ticks, DC_N) records, in
\* record order.
C11_CellLivesDCNTicks ==
    script = "etb" =>
        /\ Len(dcs) = Min2(Ticks, DC_N)
        /\ \A j \in 1..Len(dcs) :
              LET born == Ticks - Len(dcs) + j
              IN  /\ dcs[j].antigen = antigen[born]
                  /\ dcs[j].context = FieldSum("context", born, Ticks)

\* the cell of the first record was deleted; the record that follows it
\* carries another antigen and another contribution
C11_FirstCellDeleted ==
    /\ script = "etb"
    /\ Ticks = DC_N + 1
    /\ antigen[1] # antigen[2]
    /\ danger[1] - safe[1] # danger[2] - safe[2]

\* the sum of danger + 2*pamp - 2*safe over the ticks from..to, in 1/SigOne
RECURSIVE KSum(_, _)
KSum(from, to) ==
    IF from > to THEN 0
    ELSE danger[from] + 2 * pamp[from] - 2 * safe[from] + KSum(from + 1, to)

\* the tick that created the cell that retired in the last tick
Born == Ticks - Len(dcs)

\* C12: with USE_DDCA = 1 in centralized_dca_analysis.py the context of a
\* tick at which a cell retires is 1.0 if and only if the sum of
\* danger + 2*pamp - 2*safe over the cell's lifetime is > 0 (csm plays no
\* part); for a stream whose every tick has danger = 1.0, safe = 0.0 and
\* pamp = 0.0 the fifth context (index 4) is 1.0.
C12_ContextIsSignOfK ==
    script = "dca" /\ USE_DDCA = 1 =>
        /\ dc # NoDC =>
              /\ context[Ticks] \in {0, Unit}
              /\ context[Ticks] = Unit <=> KSum(Born, Ticks) > 0
        /\ ( /\ Ticks >= 5
             /\ \A t \in 1..5 : danger[t] = SigOne /\ safe[t] = 0 /\ pamp[t] = 0 )
              => context[5] = Unit

\* five records with danger = 1.0, safe = 0.0, pamp = 0.0 were processed
C12_FiveDangerRecords ==
    /\ script = "dca" /\ USE_DDCA = 1
    /\ Ticks = 5
    /\ dc # NoDC
    /\ \A t \in 1..5 : danger[t] = SigOne /\ safe[t] = 0 /\ pamp[t] = 0

\* a cell retired with k <= 0 and csm > 0
C12_RetiredNotPositive ==
    /\ script = "dca" /\ USE_DDCA = 1
    /\ dc # NoDC
    /\ dc.k <= 0 /\ dc.csm > 0
    /\ context[Ticks] = 0

\* the sum over the ticks from..to of pamp*wp + safe*ws + danger*wd, in 1/SigOne
RECURSIVE WSum(_, _, _, _, _)
WSum(wp, ws, wd, from, to) ==
    IF from > to THEN 0
    ELSE pamp[from] * wp + safe[from] * ws + danger[from] * wd
         + WSum(wp, ws, wd, from + 1, to)

\* C13: with USE_DDCA = 0 in centralized_dca_analysis.py the context of a
\* tick at which a cell retires is 1.0 if and only if the cell's mature sum
\* is strictly greater than its semi-mature sum, each sum taken over the
\* cell's lifetime of the weighted combination of (pamp, safe, danger)
\* divided by the sum of the absolute weights of its own triple; equal sums
\* give 0.0.  (mat/mat_w_sum > semi/semi_w_sum is compared cross-multiplied.)
C13_ContextIsMatureOverSemi ==
    script = "dca" /\ USE_DDCA = 0 /\ dc # NoDC =>
        LET mat  == WSum(pamp_w_mat, safe_w_mat, danger_w_mat, Born, Ticks)
            semi == WSum(pamp_w_semi, safe_w_semi, danger_w_semi, Born, Ticks)
        IN  /\ context[Ticks] \in {0, Unit}
            /\ context[Ticks] = Unit <=> mat * semi_w_sum > semi * mat_w_sum
            /\ mat * semi_w_sum = semi * mat_w_sum => context[Ticks] = 0

\* a cell retired with equal mature and semi-mature sums, after an earlier
\* cell had retired mature
C13_RetiredWithEqualSums ==
    /\ script = "dca" /\ USE_DDCA = 0
    /\ dc # NoDC
    /\ dc.mat = dc.semi
    /\ Ticks > 5 /\ context[5] = Unit

\* a cell retired with the mature sum above the semi-mature sum
C13_RetiredMature ==
    /\ script = "dca" /\ USE_DDCA = 0
    /\ dc # NoDC
    /\ dc.mat > dc.semi /\ dc.semi > 0

\* the gap component of the PAMP of record j, in 1/SigOne: pamp less x_rst*pamp1_w
GapOf(j) == pamp[j] - safe_w_sum * x_rst[j] * pamp1_w

\* C14: in centralized_dca_analysis.py the gap component of the PAMP of a
\* record is pamp2_w exactly when the record is not the first of its stream
\* and its message counter less the previous record's is not 1 (a skip, a
\* repeat or a decrease), and 0.0 otherwise; for the counters 1, 2, 4 the
\* first two records have gap component 0.0 and the third has pamp2_w.
C14_GapFlagsCounterStep ==
    script = "dca" =>
        /\ \A j \in 1..Len(pamp) :
              /\ GapOf(j) \in {0, SigOne * pamp2_w}
              /\ GapOf(j) = SigOne * pamp2_w
                    <=> (j > 1 /\ sntime[j] - sntime[j - 1] # 1)
        /\ (Len(pamp) >= 3 /\ SubSeq(sntime, 1, 3) = << 1, 2, 4 >>)
              => GapOf(1) = 0 /\ GapOf(2) = 0 /\ GapOf(3) = SigOne * pamp2_w

\* the counters 1, 2, 4, then a repeated counter, were processed
C14_SkipThenRepeat ==
    /\ script = "dca"
    /\ Len(pamp) >= 4
    /\ SubSeq(sntime, 1, 4) = << 1, 2, 4, 4 >>

\* a counter below the previous record's was processed
C14_Decrease ==
    /\ script = "dca"
    /\ Len(pamp) >= 2
    /\ \E j \in 2..Len(pamp) : sntime[j] < sntime[j - 1]

\* the sum of the eight fault indicators of record j, in hundredths
IndicatorSum(j) ==
    x_nt[j] + x_vs[j] + x_bat[j] + x_art[j] + x_rst[j] + x_ic[j] + x_adc[j]
    + x_usart[j]

\* C15: in centralized_dca_analysis-etb_exp.py the danger of a record is
\* exactly 1 whenever its eight fault indicators sum to 1 or more, and is
\* their sum otherwise; danger never exceeds 1.
C15_DangerIsCappedSum ==
    script = "etb" =>
        \A j \in 1..Len(danger) :
            /\ IndicatorSum(j) >= 100 => danger[j] = Unit
            /\ IndicatorSum(j) < 100 => danger[j] * 100 = IndicatorSum(j) * Unit
            /\ danger[j] <= Unit

\* records whose indicators sum to more than 1, to exactly 1 and to a value
\* between 0 and 1 were processed
C15_AboveAtBelowOne ==
    /\ script = "etb"
    /\ \E j \in 1..Len(danger) : IndicatorSum(j) > 100
    /\ \E j \in 1..Len(danger) : IndicatorSum(j) = 100
    /\ \E j \in 1..Len(danger) : IndicatorSum(j) > 0 /\ IndicatorSum(j) < 100

\* the last up to STDDEV_N of the first n values of a list
LastPushed(list, n) ==
    SubSeq(list, Max2(1, n - STDDEV_N + 1), n)

\* C16: in centralized_dca_analysis-etb_exp.py none of the four sliding
\* windows ever holds more than STDDEV_N values; after M > STDDEV_N accepted
\* records each holds exactly STDDEV_N values, the last STDDEV_N pushed, in
\* push order (each record pushes its reading, which is also appended to
\* the reading's list).
C16_WindowIsLastN ==
    script = "etb" =>
        /\ \A w \in { t_air_a, t_soil_a, h_air_a, h_soil_a } : Len(w) <= STDDEV_N
        /\ pc # "crashed" =>
              /\ t_air_a  = LastPushed(t_air, Ticks)
              /\ t_soil_a = LastPushed(t_soil, Ticks)
              /\ h_air_a  = LastPushed(h_air, Ticks)
              /\ h_soil_a = LastPushed(h_soil, Ticks)
              /\ Ticks > STDDEV_N =>
                    \A w \in { t_air_a, t_soil_a, h_air_a, h_soil_a } :
                        Len(w) = STDDEV_N

\* more than STDDEV_N + 1 records were accepted, with a failed transmission
\* among the rows
C16_WindowSlidTwice ==
    /\ script = "etb"
    /\ Ticks > STDDEV_N + 1
    /\ pos > Ticks + 1
    /\ t_air_a[1] # t_air[1] /\ t_air_a[1] # t_air[2]

\* the lists that hold one entry per record, after the step
OutputListsNext ==
    { snid', time', t_air', t_soil', h_air', h_soil',
      x_nt', x_vs', x_bat', x_art', x_rst', x_ic', x_adc', x_usart',
      antigen', danger', safe', context' }

\* C17: in both scripts, after every fully processed record all per-stream
\* output lists (with pamp in centralized_dca_analysis.py) have the same
\* length, the number of accepted records (i in centralized_dca_analysis.py,
\* line_count less the title row in the other script); the record's own
\* values and its context sit at the same, last index; the context is 0.0
\* or 1.0 in centralized_dca_analysis.py and in [0,1] in the other script.
C17_OneContextPerRecord ==
    [][ Tick =>
            LET n == Len(context')
            IN  /\ \A list \in OutputListsNext : Len(list) = n
                /\ snid'[n] = row'.snid
                /\ t_air'[n] = Round2(row'.t_air)
                /\ x_nt'[n] = Round2(row'.x_nt)
                /\ script = "dca" =>
                      /\ Len(pamp') = n
                      /\ i' = n
                      /\ context'[n] \in {0, Unit}
                /\ script = "etb" =>
                      /\ line_count' = n + 1
                      /\ 0 <= context'[n] /\ context'[n] <= Unit ]_vars

\* the majority vote gave a context strictly between 0 and 1 to a record
\* that followed a failed transmission
C17_FractionAfterLostRow ==
    /\ script = "etb"
    /\ pc = "rows"
    /\ Ticks >= 2
    /\ pos > Ticks + 1
    /\ row.success = 1
    /\ context[Ticks] > 0 /\ context[Ticks] < Unit

\* a retirement gave the context 1.0 to a record whose x_nt is 0
C17_RetirementContext ==
    /\ script = "dca"
    /\ pc = "rows"
    /\ Ticks >= 5
    /\ context[Ticks] = Unit
    /\ x_nt[Ticks] = 0

\* centralized_dca_analysis.py: while the rows of a node are processed, the
\* lists and the cells hold entries of that node only, i of them
C18_ListsOfOneNodeA ==
    script = "dca" /\ pc = "rows" =>
        /\ Len(context) = i
        /\ \A j \in 1..Len(snid) : snid[j] = nodes[node]
        /\ \A j \in 1..Len(antigen) : antigen[j] = nodes[node]
        /\ \A j \in 1..Len(dcs) : dcs[j].antigen = nodes[node]

\* centralized_dca_analysis-etb_exp.py: the windows and the cells a record's
\* signals and context are computed from come from records of its own snid
C18_WindowsOfOneNodeB ==
    script = "etb" /\ pc = "rows" /\ Ticks >= 1 =>
        /\ \A j \in 1..Len(dcs) : dcs[j].antigen = snid[Ticks]
        /\ \A t \in (Ticks - Len(t_air_a) + 1)..Ticks : snid[t] = snid[Ticks]

\* C18: the signals and the context computed for one node's records do not
\* depend on another node's records: centralized_dca_analysis.py resets
\* every per-stream list, i and the cells before each node, and in
\* centralized_dca_analysis-etb_exp.py records of different snid values in
\* one input share neither the sliding windows nor the cells.
C18_NodesShareNothing ==
    C18_ListsOfOneNodeA /\ C18_WindowsOfOneNodeB

\* C19: no reachable state of either script divides by zero: in
\* centralized_dca_analysis-etb_exp.py every mean and standard deviation is
\* taken over a window of at least one value and the context is divided by
\* a population of at least one cell; in centralized_dca_analysis.py the
\* weight sums used as divisors are not zero for the default weights.
C19_NoDivisionByZero ==
    /\ pc # "zerodiv"
    /\ script = "etb" /\ Len(safe) >= 1 =>
          0 \notin DivisorsB(t_air_a, t_soil_a, h_air_a, h_soil_a)
    /\ script = "etb" /\ Ticks >= 1 => Len(dcs) >= 1
    /\ script = "dca" =>
          0 \notin { safe_w_sum, csm_w_sum, semi_w_sum, mat_w_sum }

\* the first record of a file went through the means, the deviations and the
\* context division with one value in each window and one cell
C19_FirstRecordOneValue ==
    /\ script = "etb"
    /\ Ticks = 1
    /\ DivisorsB(t_air_a, t_soil_a, h_air_a, h_soil_a) = {1}
    /\ Len(dcs) = 1
    /\ safe[1] = Unit

\* the step is a delivery of SIGINT
SigIntStep == script = "log" /\ sigint' = sigint + 1

\* the step is a read error (ser.readline() does not return) or a decode
\* error (the bytes read are not UTF-8), with no SIGINT
ReadOrDecodeErrorStep ==
    /\ script = "log"
    /\ sigint' = sigint
    /\ \/ pc = "readline" /\ pc' # "decode"
       \/ pc = "decode" /\ ~Decodes(s)

\* C20: serial_data_logger.py runs until a signal is caught: whenever SIGINT
\* is delivered, at any point of the read/log/sleep loop (inside
\* ser.readline() or logging.info in the try block too), the handler's
\* sys.exit(0) ends the process; a read or decode error alone never ends
\* the loop.
C20_SigIntEndsProcess ==
    [][ /\ SigIntStep => pc' = "exited"
        /\ ReadOrDecodeErrorStep => pc' # "exited" ]_vars

\* the second half of C20 alone: a read or decode error goes on to
\* ser.flush() with nothing logged, and the loop goes on
C20_ErrorKeepsLoop ==
    [][ ReadOrDecodeErrorStep => pc' = "flush" /\ log' = log ]_vars

\* the first half of C20 outside the try block: a SIGINT delivered in
\* ser.flush() or time.sleep(1) ends the process
C20_SigIntOutsideTry ==
    [][ SigIntStep /\ pc \notin InTry => pc' = "exited" ]_vars

====
